---------------------------- MODULE Spec2Model ----------------------------
(***************************************************************************)
(* FileBeam: a signaling relay (socket.io server) that pairs a sender and  *)
(* a receiver under a share code, and the WebRTC data-channel file         *)
(* transfer of the useWebRTC hook.  Both live in src/unnamed/part_000.     *)
(*                                                                         *)
(* The relay and the transfer engine share no state; each has its own      *)
(* specification over the module's variables (SpecRelay, SpecTransfer).    *)
(* The hook's negotiation with the relay and the remote peer as its        *)
(* environment is SpecHook; SpecHookStream adds its data channel traffic.  *)
(***************************************************************************)
EXTENDS Integers, Sequences, FiniteSets, Bags

(***************************************************************************)
(* Bounds of the model.                                                    *)
(***************************************************************************)
\* socket ids the relay hands out (each id connects at most once)
MaxConn == 3
\* share codes in use
MaxRooms == 2
\* offer / answer / ice-candidate messages the relay handles in one run
MaxMsgs == 2
\* largest selected file, in bytes
MaxFileLen == 4
\* const CHUNK_SIZE = 1024 * 1024, scaled down to the file sizes of the model
CHUNK_SIZE == 2
\* times sendFile starts streaming in one run
MaxSends == 2
\* initWebRTC calls of the hook in one run
MaxSessions == 2
\* initWebRTC calls of the hook in one run that also streams and receives
MaxStreamSessions == 1
\* frames a remote peer puts on the data channel in one run
MaxFrames == 2

Conn == 1..MaxConn
RoomIds == 1..MaxRooms
\* JavaScript null in a room slot (socket ids are 1..MaxConn)
None == 0
\* events without payload (receiver-joined, peer-disconnected); payloads are 1..MaxMsgs
NoPayload == 0
SignalKinds == {"offer", "answer", "ice-candidate"}
\* byte values of a file
Bytes == {0, 1}
\* the files a user can select: every byte sequence up to MaxFileLen
Files == UNION {[1..n -> Bytes] : n \in 0..MaxFileLen}

VARIABLES
    \* ---- relay (server) ----
    rooms,      \* the Map `rooms`: a function from the room ids present to [sender, receiver]
    live,       \* sockets currently connected
    used,       \* socket ids ever handed out
    out,        \* bag of the messages the last handled event emitted
    last,       \* the event the relay handled last
    nextMsg,    \* identity of the next signaling payload (payloads are opaque and distinct)
    dropped,    \* history: kind, room and payload of the messages for which the relay emitted nothing
    joinedS,    \* history: per room, the sockets that joined as sender since the last disconnect
    everRecv,   \* history: rooms some socket has ever joined as receiver
    replaced,   \* history: [room, conn] for the socket another socket's join put out of a slot of the room last
    \* ---- sending peer (useWebRTC, isSender) ----
    selectedFile,   \* bytes of the selected file
    sPc,            \* peerConnection.connectionState of the sender
    dc,             \* readyState of the data channel
    loops,          \* one entry per sendFile that started streaming: its `offset` and reader
    sProgress,      \* progress
    sStatus,        \* status
    sConnected,     \* isConnected
    estimatedTime,  \* estimatedTime
    sentLog,        \* history: every frame handed to dataChannel.send, in order
    \* ---- receiving peer (useWebRTC, receiver) ----
    rPc,            \* peerConnection.connectionState of the receiver
    rcvd,           \* frames of sentLog the channel has delivered (onmessage fired)
    fileChunks,     \* fileChunksRef.current
    receivedSize,   \* receivedSizeRef.current
    totalSize,      \* totalSizeRef.current
    fileName,       \* fileNameRef.current
    rProgress,      \* progress
    rStatus,        \* status
    rConnected,     \* isConnected
    downloads,      \* history: every file saveReceivedFile surfaced for download
    \* ---- one hook with its socket and its peer connections (SpecHook) ----
    shareCode,          \* shareCode
    sessions,           \* one entry per initWebRTC: the RTCPeerConnection it created and the socket handlers it registered
    peerConnectionRef,  \* peerConnectionRef.current: index into sessions, None for null
    dataChannelRef,     \* dataChannelRef.current: the session owning the channel, None for null
    emitted,            \* what the hook emitted on its socket in the call or event it handled last
    delivered,          \* history: the socket events delivered to the hook
    rejected            \* the files the call handled last turned down

relayVars == <<rooms, live, used, out, last, nextMsg, dropped, joinedS, everRecv, replaced>>
senderVars == <<selectedFile, sPc, dc, loops, sProgress, sStatus, sConnected, estimatedTime,
                sentLog>>
receiverVars == <<rPc, rcvd, fileChunks, receivedSize, totalSize, fileName, rProgress,
                  rStatus, rConnected, downloads>>
transferVars == <<senderVars, receiverVars>>
hookVars == <<shareCode, sessions, peerConnectionRef, dataChannelRef, delivered>>
stepVars == <<emitted, rejected>>
vars == <<relayVars, transferVars, hookVars, stepVars>>

(***************************************************************************)
(* Relay: helpers.                                                         *)
(***************************************************************************)
\* rooms.set(roomId, { sender: null, receiver: null })
EmptyRoom == [sender |-> None, receiver |-> None]

\* rooms.set(key, value)
MapSet(m, k, v) == [x \in (DOMAIN m) \cup {k} |-> IF x = k THEN v ELSE m[x]]

\* io.to(id).emit(ev, payload): one emitted message
Msg(to, ev, payload) == [to |-> to, ev |-> ev, payload |-> payload]

\* if (target) io.to(target).emit(ev, payload)
EmitIf(target, ev, payload) ==
    IF target # None THEN SetToBag({Msg(target, ev, payload)}) ELSE EmptyBag

Event(ev, c, r, s, p) == [ev |-> ev, conn |-> c, room |-> r, isSender |-> s, payload |-> p]

\* io.to(id) addresses the sockets in the room named id: only a connected
\* socket is in its own room, so an emission to a closed socket reaches nobody.
Received(c, ev) ==
    IF c \in live
    THEN LET ms == {m \in BagToSet(out) : m.to = c /\ m.ev = ev}
         IN IF ms = {} THEN 0 ELSE CopiesIn(CHOOSE m \in ms : TRUE, out)
    ELSE 0

(***************************************************************************)
(* Relay: join-room.                                                       *)
(***************************************************************************)
\* Faulty variant: both branches assign room.sender.
RoomAfterJoinSenderSlotOnly(room, c, isSender) == [room EXCEPT !.sender = c]

\* the room after `if (isSender) room.sender = socket.id else room.receiver = socket.id`
RoomAfterJoin(room, c, isSender) ==
    IF isSender THEN [room EXCEPT !.sender = c] ELSE [room EXCEPT !.receiver = c]

\* Faulty variant: the notification is not scoped to the receiver branch.
JoinEmitsAnyRole(room, isSender) == EmitIf(room.sender, "receiver-joined", NoPayload)

\* what join-room emits: receiver-joined to the sender, on a receiver join only
JoinEmits(room, isSender) ==
    IF ~isSender THEN EmitIf(room.sender, "receiver-joined", NoPayload) ELSE EmptyBag

\* socket.on("join-room"); the histories joinedS and replaced are left to the caller
OnJoinRoom(c, r, isSender) ==
    /\ c \in live
    /\ LET room0 == IF r \in DOMAIN rooms THEN rooms[r] ELSE EmptyRoom
           room1 == RoomAfterJoin(room0, c, isSender)
       IN /\ rooms' = MapSet(rooms, r, room1)
          /\ out' = JoinEmits(room1, isSender)
    /\ last' = Event("join-room", c, r, isSender, NoPayload)
    /\ everRecv' = IF isSender THEN everRecv ELSE everRecv \cup {r}
    /\ UNCHANGED <<live, used, nextMsg, dropped, transferVars, hookVars, stepVars>>

JoinRoom(c, r, isSender) ==
    /\ OnJoinRoom(c, r, isSender)
    /\ UNCHANGED <<joinedS, replaced>>

\* join-room, with the socket it puts out of the slot recorded in replaced:
\* the record keeps the latest such socket, until it joins that room again
JoinRoomReplacing(c, r, isSender) ==
    /\ OnJoinRoom(c, r, isSender)
    /\ LET room0 == IF r \in DOMAIN rooms THEN rooms[r] ELSE EmptyRoom
           old == IF isSender THEN room0.sender ELSE room0.receiver
       IN replaced' = IF old # None /\ old # c
                      THEN {[room |-> r, conn |-> old]}
                      ELSE replaced \ {[room |-> r, conn |-> c]}
    /\ UNCHANGED joinedS

\* join-room, with the sender joins recorded in joinedS
JoinRoomRecorded(c, r, isSender) ==
    /\ OnJoinRoom(c, r, isSender)
    /\ joinedS' = IF isSender THEN [joinedS EXCEPT ![r] = @ \cup {c}] ELSE joinedS
    /\ UNCHANGED replaced

(***************************************************************************)
(* Relay: offer / answer / ice-candidate.                                  *)
(***************************************************************************)
\* const targetId = room.sender === socket.id ? room.receiver : room.sender
IceTarget(room, c) == IF room.sender = c THEN room.receiver ELSE room.sender

\* Faulty variant: an offer with no receiver present falls back to the sender.
SignalTargetFallback(kind, room, c) ==
    CASE kind = "offer" -> IF room.receiver # None THEN room.receiver ELSE room.sender
      [] kind = "answer" -> room.sender
      [] kind = "ice-candidate" -> IF room.sender = c THEN room.receiver ELSE room.sender

\* Faulty variant: an answer is routed like an offer, to the receiver slot.
SignalTargetAnswerToReceiver(kind, room, c) ==
    CASE kind = "offer" -> room.receiver
      [] kind = "answer" -> room.receiver
      [] kind = "ice-candidate" -> IF room.sender = c THEN room.receiver ELSE room.sender

\* the socket a signaling message is forwarded to (None: nobody)
SignalTarget(kind, room, c) ==
    CASE kind = "offer" -> room.receiver
      [] kind = "answer" -> room.sender
      [] kind = "ice-candidate" -> IceTarget(room, c)

\* socket.on("offer" | "answer" | "ice-candidate"); the history dropped is
\* left to the caller
OnSignal(c, kind, r) ==
    /\ c \in live
    /\ nextMsg <= MaxMsgs
    /\ out' = IF r \in DOMAIN rooms
              THEN EmitIf(SignalTarget(kind, rooms[r], c), kind, nextMsg)
              ELSE EmptyBag
    /\ last' = Event(kind, c, r, FALSE, nextMsg)
    /\ nextMsg' = nextMsg + 1
    /\ UNCHANGED <<rooms, live, used, joinedS, everRecv, replaced, transferVars, hookVars,
                   stepVars>>

Signal(c, kind, r) ==
    /\ OnSignal(c, kind, r)
    /\ UNCHANGED dropped

\* offer / answer / ice-candidate, with the messages that reach nobody recorded in dropped
SignalRecorded(c, kind, r) ==
    /\ OnSignal(c, kind, r)
    /\ dropped' = IF out' = EmptyBag
                  THEN dropped \cup {[ev |-> kind, room |-> r, payload |-> nextMsg]}
                  ELSE dropped

(***************************************************************************)
(* Relay: connection and disconnect.                                       *)
(***************************************************************************)
Connect(c) ==
    /\ c \notin used
    /\ live' = live \cup {c}
    /\ used' = used \cup {c}
    /\ out' = EmptyBag
    /\ last' = Event("connection", c, None, FALSE, NoPayload)
    /\ UNCHANGED <<rooms, nextMsg, dropped, joinedS, everRecv, replaced, transferVars, hookVars,
                   stepVars>>

\* if (room.sender === socket.id || room.receiver === socket.id)
Occupies(room, c) == room.sender = c \/ room.receiver = c

\* Faulty variant: the notification always goes to the sender slot.
DisconnectTargetSender(room, c) == room.sender

\* const targetId = room.sender === socket.id ? room.receiver : room.sender
DisconnectTarget(room, c) == IF room.sender = c THEN room.receiver ELSE room.sender

\* Faulty variant: else-if, so a socket in both slots keeps the receiver slot.
RoomAfterLeaveFirstSlot(room, c) ==
    IF room.sender = c THEN [room EXCEPT !.sender = None] ELSE [room EXCEPT !.receiver = None]

\* the room after both `if (room.x === socket.id) room.x = null`
RoomAfterLeave(room, c) ==
    [sender |-> IF room.sender = c THEN None ELSE room.sender,
     receiver |-> IF room.receiver = c THEN None ELSE room.receiver]

\* Faulty variant: the emptiness test never succeeds, so no room is deleted.
RoomIsGarbageNever(room) == FALSE

\* if (!room.sender && !room.receiver) rooms.delete(roomId)
RoomIsGarbage(room) == room.sender = None /\ room.receiver = None

\* Faulty variant: the disconnect forgets every room, not only the slots of the socket.
RoomsAfterDisconnectClear(c) == << >>

\* The loop over rooms.entries(): every room is handled on its own, so the
\* result does not depend on the iteration order; the emissions are a bag.
RoomsAfterDisconnect(c) ==
    LET keep == {r \in DOMAIN rooms :
                    ~(Occupies(rooms[r], c) /\ RoomIsGarbage(RoomAfterLeave(rooms[r], c)))}
    IN [r \in keep |-> IF Occupies(rooms[r], c) THEN RoomAfterLeave(rooms[r], c) ELSE rooms[r]]

DisconnectEmits(c) ==
    LET hit(t) == {r \in DOMAIN rooms : Occupies(rooms[r], c) /\ DisconnectTarget(rooms[r], c) = t}
        targets == {t \in Conn : hit(t) # {}}
    IN [m \in {Msg(t, "peer-disconnected", NoPayload) : t \in targets} |-> Cardinality(hit(m.to))]

Disconnect(c) ==
    /\ c \in live
    /\ live' = live \ {c}
    /\ rooms' = RoomsAfterDisconnect(c)
    /\ out' = DisconnectEmits(c)
    /\ last' = Event("disconnect", c, None, FALSE, NoPayload)
    /\ joinedS' = [r \in RoomIds |-> {}]
    /\ UNCHANGED <<used, nextMsg, dropped, everRecv, replaced, transferVars, hookVars, stepVars>>


(***************************************************************************)
(* Transfer engine: values.                                                *)
(***************************************************************************)
Min(a, b) == IF a < b THEN a ELSE b

\* file.slice(a, b): the bytes at offsets a .. b-1, cut at the end of the file
Slice(f, a, b) == SubSeq(f, a + 1, Min(b, Len(f)))

\* Faulty variant: the chunks are joined newest first.
RECURSIVE ConcatReversed(_)
ConcatReversed(chunks) ==
    IF chunks = << >> THEN << >> ELSE ConcatReversed(Tail(chunks)) \o Head(chunks)

\* new Blob(chunks): the chunks' bytes in array order
RECURSIVE Concat(_)
Concat(chunks) ==
    IF chunks = << >> THEN << >> ELSE Head(chunks) \o Concat(Tail(chunks))

\* (moved / total) * 100 as the exact quotient num / den; 0 / 0 is NaN, x / 0 is Infinity
ProgressOf(moved, total) == [num |-> moved * 100, den |-> total]
\* useState<number>(0)
ZeroProgress == [num |-> 0, den |-> 1]
IsNaN(p) == p.den = 0 /\ p.num = 0
IsInfinity(p) == p.den = 0 /\ p.num > 0
IsHundred(p) == p.den > 0 /\ p.num = 100 * p.den
\* p <= q as JavaScript numbers (false when either is NaN)
ProgressLeq(p, q) ==
    /\ ~IsNaN(p)
    /\ ~IsNaN(q)
    /\ \/ IsInfinity(q)
       \/ ~IsInfinity(p) /\ p.num * q.den <= q.num * p.den

\* file.name of the selected file
SelectedName == "f.bin"

\* JSON.stringify(x) is a string from which JSON.parse gives x back
JsonStringify(x) == [json |-> x]
JsonParse(str) == str.json
\* a string that is not JSON text: JSON.parse throws a SyntaxError on it
MalformedText == [text |-> "{"]
\* whether JSON.parse(str) returns rather than throws
JsonParses(str) == "json" \in DOMAIN str
\* metadata.type: undefined when the parsed object has no such property
TypeOf(metadata) == IF "type" \in DOMAIN metadata THEN metadata.type ELSE "undefined"

\* JSON.stringify({ type: "file-info", name, size, fileType })
InfoFrame(f) ==
    [binary |-> FALSE, data |-> JsonStringify([type |-> "file-info", name |-> SelectedName, size |-> Len(f)])]
\* JSON.stringify({ type: "file-complete" })
CompleteFrame ==
    [binary |-> FALSE, data |-> JsonStringify([type |-> "file-complete", name |-> "", size |-> 0])]
\* an ArrayBuffer
ChunkFrame(bytes) == [binary |-> TRUE, data |-> bytes]

\* dataChannelRef.current.send(frame), from the send loop `loop`
Sent(log, loop, frame) == Append(log, [loop |-> loop, frame |-> frame])

StatusConnected == "Connected! Ready for file transfer."
StatusLost == "Connection lost. Please try again."
StatusSent == "File sent successfully!"
StatusReceived == "File received successfully!"
StatusReceiving(name) == "Receiving: " \o name

(***************************************************************************)
(* Transfer engine: the sending peer.                                      *)
(***************************************************************************)
\* dataChannel.onopen
DataChannelOpen ==
    /\ dc = "connecting"
    /\ sPc \in {"new", "connected"}
    /\ dc' = "open"
    /\ UNCHANGED <<selectedFile, sPc, loops, sProgress, sStatus, sConnected, estimatedTime, sentLog>>
    /\ UNCHANGED <<receiverVars, relayVars, hookVars, stepVars>>

\* The channel closes once a peer connection has failed; onclose only logs.
DataChannelClose ==
    /\ dc # "closed"
    /\ sPc = "failed" \/ rPc = "failed"
    /\ dc' = "closed"
    /\ UNCHANGED <<selectedFile, sPc, loops, sProgress, sStatus, sConnected, estimatedTime, sentLog>>
    /\ UNCHANGED <<receiverVars, relayVars, hookVars, stepVars>>

\* sendFile(file) up to readSlice(0): the frames it sends and the loop it starts
SendFileStarts == dc = "open"

\* the reader loop of sendFile(file): `let offset = 0` and a read under way
NewLoop(file) == [offset |-> 0, st |-> "reading", file |-> file]

\* remainingTime: Math.ceil(remainingBytes / bytesPerSecond), 0 without a rate;
\* elapsedTime is a wall-clock reading, one second in the model
RemainingTime(offset, size) ==
    IF offset > 0 THEN (size - offset + offset - 1) \div offset ELSE 0

\* onconnectionstatechange with connectionState "connected", isSender
SenderConnected ==
    /\ sPc \in {"new", "disconnected"}
    /\ SendFileStarts => Len(loops) < MaxSends
    /\ sPc' = "connected"
    /\ sConnected' = TRUE
    /\ sStatus' = StatusConnected
    /\ IF SendFileStarts
       THEN /\ sentLog' = Sent(sentLog, Len(loops) + 1, InfoFrame(selectedFile))
            /\ loops' = Append(loops, NewLoop(selectedFile))
       ELSE UNCHANGED <<sentLog, loops>>
    /\ UNCHANGED <<selectedFile, dc, sProgress, estimatedTime>>
    /\ UNCHANGED <<receiverVars, relayVars, hookVars, stepVars>>

\* onconnectionstatechange with connectionState "disconnected" or "failed"
SenderLost(state) ==
    /\ \/ sPc = "connected"
       \/ sPc = "disconnected" /\ state = "failed"
    /\ sPc' = state
    /\ sConnected' = FALSE
    /\ sStatus' = StatusLost
    /\ UNCHANGED <<selectedFile, dc, loops, sProgress, estimatedTime, sentLog>>
    /\ UNCHANGED <<receiverVars, relayVars, hookVars, stepVars>>

\* Faulty variant: <= instead of <.
MoreToReadInclusive(offset, f) == offset <= Len(f)

\* if (offset < file.size) readSlice(offset) else send file-complete
MoreToRead(offset, f) == offset < Len(f)

\* reader.onload of send loop i.  The result of a read is an ArrayBuffer (an
\* object, truthy also when empty) and dataChannelRef.current is set, so the
\* early return is not taken; send on a channel that is not open throws and
\* the loop ends there.
ReaderOnload(i) ==
    /\ i \in DOMAIN loops
    /\ loops[i].st = "reading"
    /\ IF dc # "open"
       THEN /\ loops' = [loops EXCEPT ![i].st = "dead"]
            /\ UNCHANGED <<sentLog, sProgress, estimatedTime, sStatus>>
       ELSE LET file == loops[i].file
                result == Slice(file, loops[i].offset, loops[i].offset + CHUNK_SIZE)
                offset == loops[i].offset + Len(result)
                log1 == Sent(sentLog, i, ChunkFrame(result))
            IN /\ sProgress' = ProgressOf(offset, Len(file))
               /\ estimatedTime' = RemainingTime(offset, Len(file))
               /\ IF MoreToRead(offset, file)
                  THEN /\ loops' = [loops EXCEPT ![i].offset = offset]
                       /\ sentLog' = log1
                       /\ UNCHANGED sStatus
                  ELSE /\ loops' = [loops EXCEPT ![i].offset = offset, ![i].st = "done"]
                       /\ sentLog' = Sent(log1, i, CompleteFrame)
                       /\ sStatus' = StatusSent
    /\ emitted' = << >>
    /\ rejected' = {}
    /\ UNCHANGED <<selectedFile, sPc, dc, sConnected>>
    /\ UNCHANGED <<receiverVars, relayVars, hookVars>>

(***************************************************************************)
(* Transfer engine: the receiving peer.                                    *)
(***************************************************************************)
\* onconnectionstatechange with connectionState "connected", receiver
ReceiverConnected ==
    /\ rPc \in {"new", "disconnected"}
    /\ rPc' = "connected"
    /\ rConnected' = TRUE
    /\ rStatus' = StatusConnected
    /\ UNCHANGED <<rcvd, fileChunks, receivedSize, totalSize, fileName, rProgress, downloads>>
    /\ UNCHANGED <<senderVars, relayVars, hookVars, stepVars>>

\* onconnectionstatechange with connectionState "disconnected" or "failed", receiver
ReceiverLost(state) ==
    /\ \/ rPc = "connected"
       \/ rPc = "disconnected" /\ state = "failed"
    /\ rPc' = state
    /\ rConnected' = FALSE
    /\ rStatus' = StatusLost
    /\ UNCHANGED <<rcvd, fileChunks, receivedSize, totalSize, fileName, rProgress, downloads>>
    /\ UNCHANGED <<senderVars, relayVars, hookVars, stepVars>>

\* saveReceivedFile: the blob handed to the download link
SavedFile(streams) ==
    [bytes |-> Concat(fileChunks), name |-> fileName, totalSize |-> totalSize,
     streams |-> streams]

\* the refs and state handleDataChannelMessage works on, for a hook whose
\* progress and status are the given ones; `saved` tells whether the handler
\* called saveReceivedFile
Refs(progress, status) ==
    [fileChunks |-> fileChunks, receivedSize |-> receivedSize, totalSize |-> totalSize,
     fileName |-> fileName, progress |-> progress, status |-> status, saved |-> FALSE]

\* Faulty variant: file-info keeps the chunks and the byte count it finds.
HandleDataChannelMessageKeeping(frame, h) ==
    IF frame.binary
    THEN LET size == h.receivedSize + Len(frame.data)
         IN [h EXCEPT !.fileChunks = Append(h.fileChunks, frame.data),
                      !.receivedSize = size,
                      !.progress = ProgressOf(size, h.totalSize)]
    ELSE IF ~JsonParses(frame.data) THEN h
    ELSE LET metadata == JsonParse(frame.data)
         IN IF TypeOf(metadata) = "file-info"
            THEN [h EXCEPT !.totalSize = metadata.size,
                           !.fileName = metadata.name,
                           !.status = StatusReceiving(metadata.name)]
            ELSE IF TypeOf(metadata) = "file-complete"
            THEN [h EXCEPT !.saved = TRUE, !.status = StatusReceived]
            ELSE h

\* Faulty variant: every text frame that is not file-info completes the file.
HandleDataChannelMessageElseComplete(frame, h) ==
    IF frame.binary
    THEN LET size == h.receivedSize + Len(frame.data)
         IN [h EXCEPT !.fileChunks = Append(h.fileChunks, frame.data),
                      !.receivedSize = size,
                      !.progress = ProgressOf(size, h.totalSize)]
    ELSE IF JsonParses(frame.data) /\ TypeOf(JsonParse(frame.data)) = "file-info"
    THEN LET metadata == JsonParse(frame.data)
         IN [h EXCEPT !.fileChunks = << >>,
                      !.receivedSize = 0,
                      !.totalSize = metadata.size,
                      !.fileName = metadata.name,
                      !.status = StatusReceiving(metadata.name)]
    ELSE [h EXCEPT !.saved = TRUE, !.status = StatusReceived]

\* handleDataChannelMessage(event): what it leaves in the refs and state h.
\* A string on which JSON.parse throws ends in the catch, which only logs; a
\* parsed value with no recognised type takes neither branch.
\* (The receive path's estimatedTime is not modelled.)
HandleDataChannelMessage(frame, h) ==
    IF frame.binary
    THEN LET size == h.receivedSize + Len(frame.data)
         IN [h EXCEPT !.fileChunks = Append(h.fileChunks, frame.data),
                      !.receivedSize = size,
                      !.progress = ProgressOf(size, h.totalSize)]
    ELSE IF ~JsonParses(frame.data) THEN h
    ELSE LET metadata == JsonParse(frame.data)
         IN IF TypeOf(metadata) = "file-info"
            THEN [h EXCEPT !.fileChunks = << >>,
                           !.receivedSize = 0,
                           !.totalSize = metadata.size,
                           !.fileName = metadata.name,
                           !.status = StatusReceiving(metadata.name)]
            ELSE IF TypeOf(metadata) = "file-complete"
            THEN [h EXCEPT !.saved = TRUE, !.status = StatusReceived]
            ELSE h

\* dataChannel.onmessage -> handleDataChannelMessage, for the next frame of the
\* ordered, reliable channel
OnMessage ==
    /\ dc = "open"
    /\ rcvd < Len(sentLog)
    /\ rcvd' = rcvd + 1
    /\ LET h == HandleDataChannelMessage(sentLog[rcvd + 1].frame, Refs(rProgress, rStatus))
       IN /\ fileChunks' = h.fileChunks
          /\ receivedSize' = h.receivedSize
          /\ totalSize' = h.totalSize
          /\ fileName' = h.fileName
          /\ rProgress' = h.progress
          /\ rStatus' = h.status
          /\ downloads' = IF h.saved THEN Append(downloads, SavedFile(Len(loops)))
                          ELSE downloads
    /\ UNCHANGED <<rPc, rConnected>>
    /\ UNCHANGED <<senderVars, relayVars, hookVars, stepVars>>

(***************************************************************************)
(* The hook of one peer: file selection, share codes, negotiation and the  *)
(* hand-over to the transfer engine.  The relay and the remote peer are    *)
(* its environment: socket events, connection-state changes and incoming   *)
(* frames arrive in any order.  The hook's progress, status and            *)
(* isConnected are sProgress, sStatus and sConnected; dc is the readyState *)
(* of dataChannelRef.current.                                              *)
(***************************************************************************)
\* share codes: a nanoid(8) result, which is also what a user types
Codes == {"c1"}
\* the limit of handleFileSelect, 1024 * 1024 * 1024, scaled to the model's files
MAX_FILE_SIZE == MaxFileLen
\* JavaScript null for selectedFile: no file (the bytes of a file are 0 and 1)
NoFile == <<2>>
Zeros(n) == [k \in 1..n |-> 0]
\* the files offered to handleFileSelect: at the limit and one byte above
Picks == {Zeros(n) : n \in MAX_FILE_SIZE..(MAX_FILE_SIZE + 1)}
\* text frames outside the protocol: a string that is not JSON, an object of
\* another type, an object with no type
StrayFrames ==
    {[binary |-> FALSE, data |-> MalformedText],
     [binary |-> FALSE, data |-> JsonStringify([type |-> "ping", name |-> "", size |-> 0])],
     [binary |-> FALSE, data |-> JsonStringify([name |-> "f.bin"])]}
\* the frames a remote peer may put on the data channel
RemoteFrames ==
    {InfoFrame(Zeros(CHUNK_SIZE)), ChunkFrame(Zeros(CHUNK_SIZE)), CompleteFrame} \cup StrayFrames

\* state of the peer of SpecTransfer that the hook does not have
otherPeerVars == <<sPc, rPc, rProgress, rStatus, rConnected>>
\* the refs of the receive path
accVars == <<fileChunks, receivedSize, totalSize, fileName>>

\* socketRef.current.emit(ev, { roomId, ... }); `from` is the session whose
\* peer connection made the offer, answer or candidate
Emit(ev, roomId, isSender, from) ==
    [ev |-> ev, roomId |-> roomId, isSender |-> isSender, from |-> from]

\* Faulty variant: >= instead of >.
TooLargeInclusive(file) == Len(file) >= MAX_FILE_SIZE

\* file.size > 1024 * 1024 * 1024
TooLarge(file) == Len(file) > MAX_FILE_SIZE

\* handleFileSelect with one file chosen
HandleFileSelect(file) ==
    /\ rejected' = IF TooLarge(file) THEN {file} ELSE {}
    /\ IF TooLarge(file)
       THEN UNCHANGED <<selectedFile, shareCode, sProgress, estimatedTime, sStatus,
                        sConnected, fileChunks, receivedSize, totalSize>>
       ELSE /\ selectedFile' = file
            /\ shareCode' = ""
            /\ sProgress' = ZeroProgress
            /\ estimatedTime' = 0
            /\ sStatus' = ""
            /\ sConnected' = FALSE
            /\ fileChunks' = << >>
            /\ receivedSize' = 0
            /\ totalSize' = 0
    /\ UNCHANGED <<fileName, dc, loops, sentLog, rcvd, downloads>>
    /\ emitted' = << >>
    /\ UNCHANGED <<sessions, peerConnectionRef, dataChannelRef, delivered>>
    /\ UNCHANGED <<relayVars, otherPeerVars>>

\* new RTCPeerConnection plus the closure of the handlers registered on it
NewSession(code, isSender) ==
    [code |-> code, isSender |-> isSender, file |-> selectedFile,
     sig |-> "stable", negotiated |-> FALSE, conn |-> "new"]

\* initWebRTC(code, isSender)
InitWebRTC(code, isSender) ==
    /\ sessions' = Append(sessions, NewSession(code, isSender))
    /\ peerConnectionRef' = Len(sessions) + 1
    /\ IF isSender
       THEN /\ dataChannelRef' = Len(sessions) + 1
            /\ dc' = "connecting"
       ELSE UNCHANGED <<dataChannelRef, dc>>
    /\ emitted' = <<Emit("join-room", code, isSender, None)>>

\* generateCode; code is the result of nanoid(8)
GenerateCode(code) ==
    /\ IF selectedFile = NoFile
       THEN /\ emitted' = << >>
            /\ UNCHANGED <<shareCode, sessions, peerConnectionRef, dataChannelRef, dc>>
       ELSE /\ shareCode' = code
            /\ InitWebRTC(code, TRUE)
    /\ UNCHANGED <<selectedFile, sProgress, estimatedTime, sStatus, sConnected, accVars>>
    /\ UNCHANGED <<loops, sentLog, rcvd, downloads, delivered>>
    /\ rejected' = {}
    /\ UNCHANGED <<relayVars, otherPeerVars>>

\* connectWithCode(code)
ConnectWithCode(code) ==
    /\ IF code = ""
       THEN /\ emitted' = << >>
            /\ UNCHANGED <<sStatus, sessions, peerConnectionRef, dataChannelRef, dc>>
       ELSE /\ sStatus' = "Connecting..."
            /\ InitWebRTC(code, FALSE)
    /\ UNCHANGED <<selectedFile, shareCode, sProgress, estimatedTime, sConnected, accVars>>
    /\ UNCHANGED <<loops, sentLog, rcvd, downloads, delivered>>
    /\ rejected' = {}
    /\ UNCHANGED <<relayVars, otherPeerVars>>

\* Faulty variant: the handler is not tied to its event and role.
RespondsToAnyEvent(s, ev, fails) == ~fails /\ s.conn # "closed"

\* whether the handler a session registered for `ev` gets as far as its emit:
\* the "receiver-joined" handler of a sender session (createOffer,
\* setLocalDescription, emit offer), the "offer" handler of a receiver session
\* (setRemoteDescription, createAnswer, setLocalDescription, emit answer).
\* On a closed peer connection, or when the platform rejects (fails), the
\* handler ends in its catch.
Responds(s, ev, fails) ==
    /\ ~fails
    /\ s.conn # "closed"
    /\ \/ ev = "receiver-joined" /\ s.isSender
       \/ ev = "offer" /\ ~s.isSender

\* the "answer" handler of a sender session: setRemoteDescription(answer)
\* succeeds only on a pending local offer
Accepts(s, ev, fails) ==
    /\ ~fails
    /\ s.conn # "closed"
    /\ ev = "answer" /\ s.isSender /\ s.sig = "have-local-offer"

\* the session after its handler for `ev` ran
AfterEvent(s, ev, fails) ==
    IF Responds(s, ev, fails)
    THEN IF ev = "receiver-joined"
         THEN [s EXCEPT !.sig = "have-local-offer"]
         ELSE [s EXCEPT !.sig = "stable", !.negotiated = TRUE]
    ELSE IF Accepts(s, ev, fails)
    THEN [s EXCEPT !.sig = "stable", !.negotiated = TRUE]
    ELSE s

\* what the handlers of sessions i, i+1, ... emit for `ev`, in registration order
RECURSIVE Replies(_, _, _)
Replies(i, ev, failing) ==
    IF i > Len(sessions) THEN << >>
    ELSE (IF Responds(sessions[i], ev, i \in failing)
          THEN <<Emit(IF ev = "offer" THEN "answer" ELSE "offer",
                      sessions[i].code, sessions[i].isSender, i)>>
          ELSE << >>) \o Replies(i + 1, ev, failing)

\* a socket event from the relay: every handler registered for it runs (no
\* initWebRTC ever removes one); failing are the sessions whose platform call
\* rejects.  The history delivered is left to the caller.
OnSocketEvent(ev, failing) ==
    /\ sessions' = [i \in DOMAIN sessions |-> AfterEvent(sessions[i], ev, i \in failing)]
    /\ emitted' = Replies(1, ev, failing)
    /\ UNCHANGED <<selectedFile, shareCode, sProgress, estimatedTime, sStatus, sConnected, accVars>>
    /\ UNCHANGED <<dc, loops, sentLog, rcvd, downloads, peerConnectionRef, dataChannelRef>>
    /\ rejected' = {}
    /\ UNCHANGED <<relayVars, otherPeerVars>>

Deliver(ev, failing) ==
    /\ OnSocketEvent(ev, failing)
    /\ UNCHANGED delivered

DeliverRecorded(ev, failing) ==
    /\ OnSocketEvent(ev, failing)
    /\ delivered' = delivered \cup {ev}

\* peerConnection.onicecandidate of session i, with a candidate: gathering
\* starts once a local description is set
OnIceCandidate(i) ==
    /\ i \in DOMAIN sessions
    /\ sessions[i].conn # "closed"
    /\ sessions[i].sig = "have-local-offer" \/ sessions[i].negotiated
    /\ emitted' = <<Emit("ice-candidate", sessions[i].code, sessions[i].isSender, i)>>
    /\ UNCHANGED <<selectedFile, shareCode, sProgress, estimatedTime, sStatus, sConnected, accVars>>
    /\ UNCHANGED <<dc, loops, sentLog, rcvd, downloads>>
    /\ UNCHANGED <<sessions, peerConnectionRef, dataChannelRef, delivered>>
    /\ rejected' = {}
    /\ UNCHANGED <<relayVars, otherPeerVars>>

\* whether sendFile gets past its readyState check
HookSendFileStarts == dataChannelRef # None /\ dc = "open"

\* peerConnection.onconnectionstatechange of session i, connectionState
\* "connected": only a negotiated peer connection connects
HookConnected(i) ==
    /\ i \in DOMAIN sessions
    /\ sessions[i].negotiated
    /\ sessions[i].conn \in {"new", "disconnected"}
    /\ sessions' = [sessions EXCEPT ![i].conn = "connected"]
    /\ sConnected' = TRUE
    /\ sStatus' = StatusConnected
    /\ IF sessions[i].isSender /\ sessions[i].file # NoFile /\ HookSendFileStarts
       THEN /\ Len(loops) < MaxSends
            /\ sentLog' = Sent(sentLog, Len(loops) + 1, InfoFrame(sessions[i].file))
            /\ loops' = Append(loops, NewLoop(sessions[i].file))
       ELSE UNCHANGED <<sentLog, loops>>
    /\ UNCHANGED <<selectedFile, shareCode, sProgress, estimatedTime, accVars>>
    /\ emitted' = << >>
    /\ UNCHANGED <<dc, rcvd, downloads, peerConnectionRef, dataChannelRef, delivered>>
    /\ rejected' = {}
    /\ UNCHANGED <<relayVars, otherPeerVars>>

\* peerConnection.onconnectionstatechange of session i, connectionState
\* "disconnected" or "failed"
HookLost(i, state) ==
    /\ i \in DOMAIN sessions
    /\ \/ sessions[i].conn = "connected"
       \/ sessions[i].conn = "disconnected" /\ state = "failed"
    /\ sessions' = [sessions EXCEPT ![i].conn = state]
    /\ sConnected' = FALSE
    /\ sStatus' = StatusLost
    /\ UNCHANGED <<selectedFile, shareCode, sProgress, estimatedTime, accVars>>
    /\ UNCHANGED <<dc, loops, sentLog, rcvd, downloads>>
    /\ emitted' = << >>
    /\ UNCHANGED <<peerConnectionRef, dataChannelRef, delivered>>
    /\ rejected' = {}
    /\ UNCHANGED <<relayVars, otherPeerVars>>

\* peerConnection.ondatachannel of receiver session i: the remote peer's channel
OnDataChannel(i) ==
    /\ i \in DOMAIN sessions
    /\ ~sessions[i].isSender
    /\ sessions[i].negotiated
    /\ sessions[i].conn \in {"new", "connected"}
    /\ dataChannelRef # i
    /\ dataChannelRef' = i
    /\ dc' = "connecting"
    /\ UNCHANGED <<selectedFile, shareCode, sProgress, estimatedTime, sStatus, sConnected, accVars>>
    /\ UNCHANGED <<loops, sentLog, rcvd, downloads>>
    /\ emitted' = << >>
    /\ UNCHANGED <<sessions, peerConnectionRef, delivered>>
    /\ rejected' = {}
    /\ UNCHANGED <<relayVars, otherPeerVars>>

\* dataChannel.onopen of the current channel; it only logs
HookChannelOpen ==
    /\ dataChannelRef # None
    /\ dc = "connecting"
    /\ sessions[dataChannelRef].negotiated
    /\ sessions[dataChannelRef].conn \in {"new", "connected"}
    /\ dc' = "open"
    /\ UNCHANGED <<selectedFile, shareCode, sProgress, estimatedTime, sStatus, sConnected, accVars>>
    /\ UNCHANGED <<loops, sentLog, rcvd, downloads>>
    /\ emitted' = << >>
    /\ UNCHANGED <<sessions, peerConnectionRef, dataChannelRef, delivered>>
    /\ rejected' = {}
    /\ UNCHANGED <<relayVars, otherPeerVars>>

\* dataChannel.onmessage of the current channel, for a frame of the remote peer
HookOnMessage(frame) ==
    /\ dataChannelRef # None
    /\ dc = "open"
    /\ rcvd < MaxFrames
    /\ rcvd' = rcvd + 1
    /\ LET h == HandleDataChannelMessage(frame, Refs(sProgress, sStatus))
       IN /\ fileChunks' = h.fileChunks
          /\ receivedSize' = h.receivedSize
          /\ totalSize' = h.totalSize
          /\ fileName' = h.fileName
          /\ sProgress' = h.progress
          /\ sStatus' = h.status
          /\ downloads' = IF h.saved THEN Append(downloads, SavedFile(Len(loops)))
                          ELSE downloads
    /\ UNCHANGED <<selectedFile, shareCode, estimatedTime, sConnected>>
    /\ UNCHANGED <<dc, loops, sentLog>>
    /\ emitted' = << >>
    /\ UNCHANGED <<sessions, peerConnectionRef, dataChannelRef, delivered>>
    /\ rejected' = {}
    /\ UNCHANGED <<relayVars, otherPeerVars>>

\* resetConnection
ResetConnection ==
    /\ dc' = IF dataChannelRef # None THEN "closed" ELSE dc
    /\ sessions' = IF peerConnectionRef # None
                   THEN [sessions EXCEPT ![peerConnectionRef].conn = "closed",
                                         ![peerConnectionRef].sig = "closed"]
                   ELSE sessions
    /\ selectedFile' = NoFile
    /\ shareCode' = ""
    /\ sProgress' = ZeroProgress
    /\ estimatedTime' = 0
    /\ sStatus' = ""
    /\ sConnected' = FALSE
    /\ dataChannelRef' = None
    /\ peerConnectionRef' = None
    /\ fileChunks' = << >>
    /\ receivedSize' = 0
    /\ totalSize' = 0
    /\ fileName' = ""
    /\ emitted' = << >>
    /\ UNCHANGED <<loops, sentLog, rcvd, downloads, delivered>>
    /\ rejected' = {}
    /\ UNCHANGED <<relayVars, otherPeerVars>>

(***************************************************************************)
(* Specifications.                                                         *)
(***************************************************************************)
RelayIdle ==
    /\ rooms = << >>
    /\ live = {}
    /\ used = {}
    /\ out = EmptyBag
    /\ last = Event("listen", None, None, FALSE, NoPayload)
    /\ nextMsg = 1
    /\ dropped = {}
    /\ joinedS = [r \in RoomIds |-> {}]
    /\ everRecv = {}
    /\ replaced = {}

\* both peers after generateCode / connectWithCode, before the channel is up
TransferIdle(f) ==
    /\ selectedFile = f
    /\ sPc = "new"
    /\ dc = "connecting"
    /\ loops = << >>
    /\ sProgress = ZeroProgress
    /\ sStatus = ""
    /\ sConnected = FALSE
    /\ estimatedTime = 0
    /\ sentLog = << >>
    /\ rPc = "new"
    /\ rcvd = 0
    /\ fileChunks = << >>
    /\ receivedSize = 0
    /\ totalSize = 0
    /\ fileName = ""
    /\ rProgress = ZeroProgress
    /\ rStatus = "Connecting..."
    /\ rConnected = FALSE
    /\ downloads = << >>

\* the hook's negotiation state after mount: no code, no peer connection
HookIdle ==
    /\ shareCode = ""
    /\ sessions = << >>
    /\ peerConnectionRef = None
    /\ dataChannelRef = None
    /\ emitted = << >>
    /\ delivered = {}
    /\ rejected = {}

InitRelay == RelayIdle /\ TransferIdle(<< >>) /\ HookIdle

NextRelay ==
    \/ \E c \in Conn : Connect(c)
    \/ \E c \in Conn, r \in RoomIds, s \in BOOLEAN : JoinRoom(c, r, s)
    \/ \E c \in Conn, k \in SignalKinds, r \in RoomIds : Signal(c, k, r)
    \/ \E c \in Conn : Disconnect(c)

\* the relay under any interleaving of its clients' events
SpecRelay == InitRelay /\ [][NextRelay]_vars

NextRelayJoins ==
    \/ \E c \in Conn : Connect(c)
    \/ \E c \in Conn, r \in RoomIds, s \in BOOLEAN : JoinRoomRecorded(c, r, s)
    \/ \E c \in Conn, k \in SignalKinds, r \in RoomIds : Signal(c, k, r)
    \/ \E c \in Conn : Disconnect(c)

\* the relay, with the history of sender joins kept
SpecRelayJoins == InitRelay /\ [][NextRelayJoins]_vars

NextRelayDrops ==
    \/ \E c \in Conn : Connect(c)
    \/ \E c \in Conn, r \in RoomIds, s \in BOOLEAN : JoinRoom(c, r, s)
    \/ \E c \in Conn, k \in SignalKinds, r \in RoomIds : SignalRecorded(c, k, r)
    \/ \E c \in Conn : Disconnect(c)

\* the relay, with the history of dropped messages kept
SpecRelayDrops == InitRelay /\ [][NextRelayDrops]_vars

NextRelayReplaced ==
    \/ \E c \in Conn : Connect(c)
    \/ \E c \in Conn, r \in RoomIds, s \in BOOLEAN : JoinRoomReplacing(c, r, s)
    \/ \E c \in Conn, k \in SignalKinds, r \in RoomIds : Signal(c, k, r)
    \/ \E c \in Conn : Disconnect(c)

\* the relay, with the history of the sockets put out of a slot kept
SpecRelayReplaced == InitRelay /\ [][NextRelayReplaced]_vars

InitTransfer == RelayIdle /\ HookIdle /\ \E f \in Files : TransferIdle(f)

NextTransfer ==
    \/ DataChannelOpen
    \/ DataChannelClose
    \/ SenderConnected
    \/ \E state \in {"disconnected", "failed"} : SenderLost(state)
    \/ \E i \in 1..MaxSends : ReaderOnload(i)
    \/ ReceiverConnected
    \/ \E state \in {"disconnected", "failed"} : ReceiverLost(state)
    \/ OnMessage

\* one sender and one receiver over one data channel
SpecTransfer == InitTransfer /\ [][NextTransfer]_vars

\* the hook after mount: nothing selected, no code, no peer connection
InitHook ==
    /\ RelayIdle
    /\ HookIdle
    /\ selectedFile = NoFile
    /\ sPc = "new"
    /\ dc = "closed"
    /\ loops = << >>
    /\ sProgress = ZeroProgress
    /\ sStatus = ""
    /\ sConnected = FALSE
    /\ estimatedTime = 0
    /\ sentLog = << >>
    /\ rPc = "new"
    /\ rcvd = 0
    /\ fileChunks = << >>
    /\ receivedSize = 0
    /\ totalSize = 0
    /\ fileName = ""
    /\ rProgress = ZeroProgress
    /\ rStatus = ""
    /\ rConnected = FALSE
    /\ downloads = << >>

SocketEvents == {"receiver-joined", "offer", "answer", "ice-candidate"}

\* the steps of selection, share codes and negotiation, with at most n initWebRTC calls
Negotiation(n) ==
    \/ \E file \in Picks : HandleFileSelect(file)
    \/ \E code \in Codes : Len(sessions) < n /\ GenerateCode(code)
    \/ \E code \in Codes \cup {""} : Len(sessions) < n /\ ConnectWithCode(code)
    \/ \E i \in 1..n : OnIceCandidate(i)
    \/ \E i \in 1..n : HookConnected(i)
    \/ \E i \in 1..n, state \in {"disconnected", "failed"} : HookLost(i, state)
    \/ \E i \in 1..n : OnDataChannel(i)
    \/ HookChannelOpen
    \/ ResetConnection

NextHook ==
    \/ Negotiation(MaxSessions)
    \/ \E ev \in SocketEvents, failing \in SUBSET (1..MaxSessions) : DeliverRecorded(ev, failing)

\* one hook, its socket and its peer connections in any environment, up to the
\* hand-over to the transfer engine
SpecHook == InitHook /\ [][NextHook]_vars

NextHookStream ==
    \/ Negotiation(MaxStreamSessions)
    \/ \E ev \in SocketEvents, failing \in SUBSET (1..MaxStreamSessions) : Deliver(ev, failing)
    \/ \E frame \in RemoteFrames : HookOnMessage(frame)
    \/ \E i \in 1..MaxSends : ReaderOnload(i)

\* one hook in any environment, streaming and receiving included
SpecHookStream == InitHook /\ [][NextHookStream]_vars

(***************************************************************************)
(* Properties of the relay.                                                *)
(***************************************************************************)
IsJoin(e, c, r, isSender) == e = Event("join-room", c, r, isSender, NoPayload)

\* C1 as stated: A joins room r as sender and later B joins it as receiver,
\* with no disconnect in between (whatever else happens in between); then the
\* relay routes an ice-candidate of A to B and one of B to A.
C1_PairedAfterJoins_AsStated ==
    [][\A r \in RoomIds, a \in Conn, b \in Conn :
          (a # b /\ a \in joinedS[r] /\ IsJoin(last', b, r, FALSE))
              => /\ IceTarget(rooms'[r], a) = b
                 /\ IceTarget(rooms'[r], b) = a]_vars

\* C1 amended: A holds the sender slot of room r when B joins r as receiver
\* (no disconnect of A and no other join as sender into r since A joined);
\* then the relay routes an ice-candidate of A to B and one of B to A.
C1_PairedAfterJoins ==
    [][\A r \in RoomIds, a \in Conn, b \in Conn :
          (a # b /\ r \in DOMAIN rooms /\ rooms[r].sender = a /\ a \in joinedS[r]
                 /\ IsJoin(last', b, r, FALSE))
              => /\ IceTarget(rooms'[r], a) = b
                 /\ IceTarget(rooms'[r], b) = a]_vars

\* A joined as sender, B has just joined as receiver, and the room pairs them.
C1_Witness ==
    \E r \in DOMAIN rooms, a \in Conn, b \in Conn :
        /\ a # b
        /\ a \in joinedS[r]
        /\ IsJoin(last, b, r, FALSE)
        /\ rooms[r] = [sender |-> a, receiver |-> b]
        /\ Received(a, "receiver-joined") = 1

\* C2: the registry never holds a room with both slots empty, and every room
\* has exactly the two slots, each empty or holding one socket id.
C2_NoGarbageRoom ==
    \A r \in DOMAIN rooms :
        /\ DOMAIN rooms[r] = {"sender", "receiver"}
        /\ rooms[r].sender \in Conn \cup {None}
        /\ rooms[r].receiver \in Conn \cup {None}
        /\ ~(rooms[r].sender = None /\ rooms[r].receiver = None)

\* A disconnect has emptied one slot of a room that stays and deleted another room.
C2_Witness ==
    /\ last.ev = "disconnect"
    /\ \E r \in DOMAIN rooms : rooms[r].sender = None \/ rooms[r].receiver = None
    /\ \E q \in everRecv : q \notin DOMAIN rooms

\* b is the occupant that remains in a room of which c held a slot
RemainsIn(room, c, b) ==
    /\ b # c
    /\ \/ room.sender = c /\ room.receiver = b
       \/ room.receiver = c /\ room.sender = b

\* C3: when c disconnects, every connection b receives one peer-disconnected
\* per room in which b remains after c held the other slot, and none besides;
\* peer-disconnected is emitted by no other event.
C3_PeerDisconnected ==
    /\ [][last'.ev = "disconnect" =>
            \A b \in Conn :
                Received(b, "peer-disconnected")' =
                    Cardinality({r \in DOMAIN rooms : RemainsIn(rooms[r], last'.conn, b)})]_vars
    /\ [](\A m \in BagToSet(out) : m.ev = "peer-disconnected" => last.ev = "disconnect")

\* A disconnect notified one peer twice, once for each of two rooms.
C3_Witness ==
    /\ last.ev = "disconnect"
    /\ \E b \in Conn : Received(b, "peer-disconnected") = 2
    /\ \E b \in live : Received(b, "peer-disconnected") = 0

\* C4: receiver-joined is emitted only by a join-room as receiver, once, to the
\* socket in the sender slot of the joined room; a room no receiver has ever
\* joined has an empty receiver slot and causes no receiver-joined.
C4_ReceiverJoined ==
    /\ \A m \in BagToSet(out) :
          m.ev = "receiver-joined" =>
              /\ last.ev = "join-room"
              /\ ~last.isSender
              /\ last.room \in DOMAIN rooms
              /\ m.to # None
              /\ rooms[last.room].sender = m.to
              /\ out = SetToBag({m})
    /\ \A r \in RoomIds \ everRecv :
          /\ r \in DOMAIN rooms => rooms[r].receiver = None
          /\ (last.ev = "join-room" /\ last.room = r) =>
                 \A m \in BagToSet(out) : m.ev # "receiver-joined"

\* A receiver join has notified a sender while another room has a sender and
\* has never been joined by a receiver.
C4_Witness ==
    /\ \E m \in BagToSet(out) : m.ev = "receiver-joined"
    /\ \E r \in DOMAIN rooms : r \notin everRecv /\ rooms[r].sender # None

\* the slot a message of this kind from c is routed to is empty: an offer goes
\* to the receiver, an answer to the sender, an ice-candidate to the slot
\* opposite to the one c holds
NoOppositeOccupant(kind, c, r) ==
    \/ r \notin DOMAIN rooms
    \/ /\ r \in DOMAIN rooms
       /\ CASE kind = "offer" -> rooms[r].receiver = None
            [] kind = "answer" -> rooms[r].sender = None
            [] kind = "ice-candidate" ->
                   \/ rooms[r].sender = c /\ rooms[r].receiver = None
                   \/ rooms[r].receiver = c /\ rooms[r].sender = None

Slot(room, isSender) == IF isSender THEN room.sender ELSE room.receiver

\* a join-room puts the joining socket into the slot of its role and leaves
\* the opposite slot of the room as it was
JoinReplaces ==
    last'.ev = "join-room" =>
        LET r == last'.room
            room0 == IF r \in DOMAIN rooms THEN rooms[r] ELSE EmptyRoom
        IN /\ r \in DOMAIN rooms'
           /\ Slot(rooms'[r], last'.isSender) = last'.conn
           /\ Slot(rooms'[r], ~last'.isSender) = Slot(room0, ~last'.isSender)

\* C13 as stated: a join into an occupied slot replaces the occupant and
\* leaves the opposite slot unchanged; when the socket that was replaced in a
\* room (and has not joined it since) disconnects, the room does not change
\* and no occupant of the room receives peer-disconnected.
C13_LastWriterWins_AsStated ==
    [][/\ JoinReplaces
       /\ last'.ev = "disconnect" =>
            \A r \in DOMAIN rooms :
                [room |-> r, conn |-> last'.conn] \in replaced =>
                    /\ r \in DOMAIN rooms'
                    /\ rooms'[r] = rooms[r]
                    /\ \A b \in Conn :
                          Occupies(rooms[r], b) => Received(b, "peer-disconnected")' = 0]_vars

\* C13 amended: as stated for the join; when a socket disconnects while it
\* holds no slot of a room (as a socket that was replaced in it does, unless
\* it holds the opposite slot too), the room does not change and its
\* occupants receive peer-disconnected only for the other rooms in which they
\* remain after the socket held the other slot.
C13_LastWriterWins ==
    [][/\ JoinReplaces
       /\ last'.ev = "disconnect" =>
            \A r \in DOMAIN rooms :
                ~Occupies(rooms[r], last'.conn) =>
                    /\ r \in DOMAIN rooms'
                    /\ rooms'[r] = rooms[r]
                    /\ \A b \in Conn :
                          Occupies(rooms[r], b) =>
                              Received(b, "peer-disconnected")' =
                                  Cardinality({q \in (DOMAIN rooms) \ {r} :
                                                  RemainsIn(rooms[q], last'.conn, b)})]_vars

\* A socket that was replaced in a room has disconnected; the room still has
\* both its occupants and nobody was notified.
C13_Witness ==
    /\ last.ev = "disconnect"
    /\ out = EmptyBag
    /\ \E r \in DOMAIN rooms :
          /\ [room |-> r, conn |-> last.conn] \in replaced
          /\ rooms[r].sender \in live
          /\ rooms[r].receiver \in live

\* C15: every occupied slot holds a connected socket; after a socket
\* disconnects it holds no slot of any room, no room has appeared, a room it
\* held no slot of is as it was, and in a room it held a slot of the slot of
\* another socket is as it was.
C15_DisconnectFrame ==
    /\ [](\A r \in DOMAIN rooms :
            /\ rooms[r].sender \in live \cup {None}
            /\ rooms[r].receiver \in live \cup {None})
    /\ [][last'.ev = "disconnect" =>
            LET c == last'.conn
            IN /\ \A r \in DOMAIN rooms' : ~Occupies(rooms'[r], c)
               /\ DOMAIN rooms' \subseteq DOMAIN rooms
               /\ \A r \in DOMAIN rooms :
                     IF ~Occupies(rooms[r], c)
                     THEN r \in DOMAIN rooms' /\ rooms'[r] = rooms[r]
                     ELSE \A isSender \in BOOLEAN :
                            Slot(rooms[r], isSender) \notin {c, None} =>
                                /\ r \in DOMAIN rooms'
                                /\ Slot(rooms'[r], isSender) = Slot(rooms[r], isSender)]_vars

\* A socket has disconnected and its peer was notified: the room they shared
\* keeps the peer, with the sender slot empty; both rooms have had a receiver
\* and one of them is gone.
C15_Witness ==
    /\ last.ev = "disconnect"
    /\ \E b \in live : Received(b, "peer-disconnected") = 1
    /\ Cardinality(DOMAIN rooms) = 1
    /\ \E r \in DOMAIN rooms : rooms[r].sender = None /\ rooms[r].receiver \in live
    /\ everRecv = RoomIds

\* C16: an offer, answer or ice-candidate naming room R changes no slot of any
\* room and is forwarded at most once, with its kind and payload as received:
\* an offer only to the socket in R's receiver slot, an answer only to the
\* socket in R's sender slot, an ice-candidate only to an occupant of R.
C16_NoCrossTalk ==
    [][last'.ev \in SignalKinds =>
          /\ rooms' = rooms
          /\ BagCardinality(out') <= 1
          /\ \A m \in BagToSet(out') :
                /\ last'.room \in DOMAIN rooms
                /\ m.ev = last'.ev
                /\ m.payload = last'.payload
                /\ last'.ev = "offer" => m.to = rooms[last'.room].receiver
                /\ last'.ev = "answer" => m.to = rooms[last'.room].sender
                /\ last'.ev = "ice-candidate" => Occupies(rooms[last'.room], m.to)]_vars

\* With two rooms in use by
\* different sockets, an answer for one room has been forwarded to that room's sender.
C16_Witness ==
    /\ last.ev = "answer"
    /\ Cardinality(DOMAIN rooms) = 2
    /\ \E m \in BagToSet(out) :
          /\ m.to = rooms[last.room].sender
          /\ m.payload = last.payload
          /\ \A r \in DOMAIN rooms : r # last.room => ~Occupies(rooms[r], m.to)

\* C17: every offer, answer or ice-candidate the relay forwards comes from a
\* socket that occupies a slot of the named room and goes to the occupant of
\* the opposite slot, never back to the socket it came from.
C17_OppositeOfOriginator ==
    [][last'.ev \in SignalKinds =>
          \A m \in BagToSet(out') :
              LET room == rooms[last'.room]
                  c == last'.conn
              IN /\ Occupies(room, c)
                 /\ m.to # c
                 /\ m.to = IF room.sender = c THEN room.receiver ELSE room.sender]_vars

\* both slots of the room are taken, by two sockets
Paired(room) == room.sender # None /\ room.receiver # None /\ room.sender # room.receiver

IsInfo(frame) == ~frame.binary /\ frame.data.json.type = "file-info"
IsComplete(frame) == ~frame.binary /\ frame.data.json.type = "file-complete"

\* the binary frames send loop i has handed to the channel, in order
LoopChunks(i) ==
    LET OfLoop(e) == e.loop = i /\ e.frame.binary
    IN SelectSeq(sentLog, OfLoop)

RECURSIVE TotalLength(_)
TotalLength(entries) ==
    IF entries = << >> THEN 0 ELSE Len(Head(entries).frame.data) + TotalLength(Tail(entries))

CeilDiv(n, d) == (n + d - 1) \div d

\* C6: a file surfaced while the sender has streamed the file once (file-info,
\* the chunks in order, file-complete) has exactly the bytes of the selected
\* file, and the totalSize recorded with it is the file's length.
C6_RoundTrip ==
    \A k \in DOMAIN downloads :
        downloads[k].streams = 1 =>
            /\ downloads[k].bytes = selectedFile
            /\ downloads[k].totalSize = Len(selectedFile)

\* A file of more than one chunk, with a short last chunk and bytes that
\* differ, has been streamed once and surfaced.
C6_Witness ==
    /\ Len(selectedFile) > CHUNK_SIZE
    /\ Len(selectedFile) % CHUNK_SIZE # 0
    /\ selectedFile[1] # selectedFile[Len(selectedFile)]
    /\ Len(downloads) = 1
    /\ downloads[1].streams = 1
    /\ downloads[1].bytes = selectedFile

\* C7: over the lifetime of the sender connection file-info is sent at most
\* once and file-complete at most once, and the frames of two send loops are
\* never interleaved, whatever the connection-state events.
C7_OneTransfer ==
    /\ Cardinality({k \in DOMAIN sentLog : IsInfo(sentLog[k].frame)}) <= 1
    /\ Cardinality({k \in DOMAIN sentLog : IsComplete(sentLog[k].frame)}) <= 1
    /\ \A j \in DOMAIN sentLog, k \in DOMAIN sentLog :
          j < k => sentLog[j].loop <= sentLog[k].loop

\* the bytes the k-th chunk of the file covers
ChunkOfFile(k) ==
    SubSeq(selectedFile, (k - 1) * CHUNK_SIZE + 1, Min(k * CHUNK_SIZE, Len(selectedFile)))

\* the frames of a send loop are the file's chunks in increasing offset order
\* from offset 0, each of CHUNK_SIZE bytes except the last one sent
FramesInOrder(i) ==
    LET fr == LoopChunks(i)
    IN \A k \in DOMAIN fr :
          /\ fr[k].frame.data = ChunkOfFile(k)
          /\ k < Len(fr) => Len(fr[k].frame.data) = CHUNK_SIZE

\* C8 as stated: a finished send loop has sent exactly ceil(n / CHUNK_SIZE)
\* binary frames, in offset order, all of CHUNK_SIZE bytes but the last, n bytes in all.
C8_FrameCount_AsStated ==
    \A i \in DOMAIN loops :
        /\ FramesInOrder(i)
        /\ loops[i].st = "done" =>
              /\ Len(LoopChunks(i)) = CeilDiv(Len(selectedFile), CHUNK_SIZE)
              /\ TotalLength(LoopChunks(i)) = Len(selectedFile)

\* C8 amended: as stated for n >= 1; for the empty file the loop sends exactly
\* one binary frame, of 0 bytes.
C8_FrameCount ==
    \A i \in DOMAIN loops :
        /\ FramesInOrder(i)
        /\ loops[i].st = "done" =>
              /\ Len(LoopChunks(i)) =
                    IF Len(selectedFile) = 0 THEN 1
                    ELSE CeilDiv(Len(selectedFile), CHUNK_SIZE)
              /\ TotalLength(LoopChunks(i)) = Len(selectedFile)

\* A send loop has finished a file of several chunks whose last chunk is short.
C8_Witness ==
    \E i \in DOMAIN loops :
        /\ loops[i].st = "done"
        /\ Len(LoopChunks(i)) >= 2
        /\ Len(selectedFile) % CHUNK_SIZE # 0

\* this step hands file-complete to the channel
SendsComplete == Len(sentLog') > Len(sentLog) /\ IsComplete(sentLog'[Len(sentLog')].frame)
\* this step delivers file-complete to the receiver
ReceivesComplete == rcvd' = rcvd + 1 /\ IsComplete(sentLog[rcvd'].frame)

\* C9: while the file is streamed once, the progress of the sender and of the
\* receiver never decreases, and it is exactly 100 when file-complete is sent
\* (sender) and when it is received (receiver).
C9_Progress ==
    [][Len(loops') <= 1 =>
          /\ ProgressLeq(sProgress, sProgress') \/ sProgress' = sProgress
          /\ ProgressLeq(rProgress, rProgress') \/ rProgress' = rProgress
          /\ SendsComplete => IsHundred(sProgress')
          /\ ReceivesComplete => IsHundred(rProgress')]_vars

\* C10: every file surfaced for download has exactly the totalSize bytes that
\* the file-info of its transfer announced.
C10_NoPartialFile ==
    \A k \in DOMAIN downloads : Len(downloads[k].bytes) = downloads[k].totalSize

\* connection states in which the peer connection is lost
LostStates == {"disconnected", "failed"}

\* C18: once the sender's peer connection is disconnected or failed, no further
\* binary or file-complete frame is handed to the channel; when the receiver's
\* peer connection becomes disconnected or failed, its accumulator and byte
\* count are discarded; and either peer shows isConnected false and the
\* connection-lost status at that moment.
C18_AbandonedOnLoss ==
    [][/\ sPc \in LostStates =>
             \A k \in (Len(sentLog) + 1)..Len(sentLog') : IsInfo(sentLog'[k].frame)
       /\ (sPc' \in LostStates /\ sPc' # sPc) =>
             ~sConnected' /\ sStatus' = StatusLost
       /\ (rPc' \in LostStates /\ rPc' # rPc) =>
             /\ fileChunks' = << >>
             /\ receivedSize' = 0
             /\ ~rConnected' /\ rStatus' = StatusLost]_vars

\* C19: the step that handles file-complete surfaces the accumulated chunks,
\* concatenated in receipt order, as one more download and leaves no byte in
\* the accumulator.
C19_AccumulatorCleared ==
    [][ReceivesComplete =>
          /\ Len(downloads') = Len(downloads) + 1
          /\ downloads'[Len(downloads')].bytes = Concat(fileChunks)
          /\ Concat(fileChunks') = << >>]_vars

\* the index of the latest file-info among the first n frames on the channel (0: none)
LastInfo(n) ==
    LET infos == {k \in 1..n : IsInfo(sentLog[k].frame)}
    IN IF infos = {} THEN 0 ELSE CHOOSE k \in infos : \A j \in infos : j <= k

\* the bytes of the binary frames among frames a..b on the channel, in order
RECURSIVE BytesBetween(_, _)
BytesBetween(a, b) ==
    IF a > b THEN << >>
    ELSE (IF sentLog[a].frame.binary THEN sentLog[a].frame.data ELSE << >>)
             \o BytesBetween(a + 1, b)

\* C22: the step that handles a file-info leaves the accumulator empty, the
\* byte count 0 and totalSize and the file name as the file-info gives them,
\* whatever the accumulator held; and the file surfaced by the step that
\* handles a file-complete has exactly the bytes received after the latest
\* file-info.
C22_InfoSupersedes ==
    [][rcvd' = rcvd + 1 =>
          LET frame == sentLog[rcvd'].frame
          IN /\ IsInfo(frame) =>
                   /\ fileChunks' = << >>
                   /\ receivedSize' = 0
                   /\ totalSize' = JsonParse(frame.data).size
                   /\ fileName' = JsonParse(frame.data).name
             /\ (IsComplete(frame) /\ LastInfo(rcvd) > 0) =>
                   /\ Len(downloads') = Len(downloads) + 1
                   /\ downloads'[Len(downloads')].bytes = BytesBetween(LastInfo(rcvd) + 1, rcvd)]_vars

\* A file-info arrived after bytes of an earlier transfer, bytes followed it,
\* and the file-complete just handled surfaced only the bytes that followed.
C22_Witness ==
    /\ rcvd > 0
    /\ IsComplete(sentLog[rcvd].frame)
    /\ LastInfo(rcvd) > 1
    /\ BytesBetween(1, LastInfo(rcvd)) # << >>
    /\ BytesBetween(LastInfo(rcvd) + 1, rcvd) # << >>
    /\ Len(downloads) > 0
    /\ downloads[Len(downloads)].bytes = BytesBetween(LastInfo(rcvd) + 1, rcvd)

(***************************************************************************)
(* Properties of the negotiation-to-transfer hand-over.                    *)
(***************************************************************************)
\* the transfer scheduled fairly: a pending FileReader callback is dispatched
\* and a data channel that is being set up does open
SpecTransferFair ==
    /\ SpecTransfer
    /\ WF_vars(DataChannelOpen)
    /\ WF_vars(\E i \in 1..MaxSends : ReaderOnload(i))

\* some send loop has sent file-info, every chunk and file-complete
StreamedToTheEnd == \E i \in DOMAIN loops : loops[i].st = "done"

\* C11: once the sender's peer connection is connected (a file is selected),
\* either a peer connection or the channel is lost afterwards or the sender
\* eventually has sent file-info, every chunk and file-complete; in whichever
\* order "connected" and the data channel's "open" arrive.
C11_StreamsOnceConnected ==
    [](sPc = "connected" =>
          <>(\/ sPc # "connected"
             \/ rPc \in {"disconnected", "failed"}
             \/ dc = "closed"
             \/ StreamedToTheEnd))

(***************************************************************************)
(* Properties of the hook.                                                 *)
(***************************************************************************)
\* C12: handleFileSelect with a file above the limit changes nothing:
\* selectedFile, shareCode, progress, estimatedTime, status, isConnected and
\* the receive accumulator stay as they are, nothing is emitted on the socket
\* and no peer connection or channel is created; a file of exactly the limit
\* is accepted and becomes the selected file.
C12_OversizeRejected ==
    [][\A file \in Picks :
          HandleFileSelect(file) =>
              IF Len(file) > MAX_FILE_SIZE
              THEN /\ UNCHANGED <<selectedFile, shareCode, sProgress, estimatedTime, sStatus,
                                  sConnected>>
                   /\ UNCHANGED <<fileChunks, receivedSize, totalSize, fileName>>
                   /\ emitted' = << >>
                   /\ UNCHANGED <<sessions, peerConnectionRef, dataChannelRef, dc>>
              ELSE selectedFile' = file]_vars

\* A file above the limit has just been turned down in the middle of a
\* session: a file of exactly the limit is selected, a code is shared, the
\* hook is connected, has streamed part of the file and has accumulated a chunk.
C12_Witness ==
    /\ \E file \in rejected : Len(file) = MAX_FILE_SIZE + 1
    /\ Len(selectedFile) = MAX_FILE_SIZE
    /\ shareCode # ""
    /\ sConnected
    /\ sProgress # ZeroProgress
    /\ estimatedTime > 0
    /\ fileChunks # << >>
    /\ receivedSize > 0

\* C14: an offer is emitted only once receiver-joined has been delivered, and
\* by a sender session; an answer only once an offer has been delivered, and
\* by a receiver session.  As long as no offer has been delivered to the hook
\* it emits no answer, none of its receiver sessions is negotiated or leaves
\* connection state "new" (other than by being closed), and a hook that has
\* only connected as receiver has isConnected false.
C14_NegotiationOrder ==
    /\ \A k \in DOMAIN emitted :
          /\ emitted[k].ev = "offer" =>
                "receiver-joined" \in delivered /\ sessions[emitted[k].from].isSender
          /\ emitted[k].ev = "answer" =>
                "offer" \in delivered /\ ~sessions[emitted[k].from].isSender
    /\ "offer" \notin delivered =>
          /\ \A k \in DOMAIN emitted : emitted[k].ev # "answer"
          /\ \A i \in DOMAIN sessions :
                ~sessions[i].isSender =>
                    ~sessions[i].negotiated /\ sessions[i].conn \in {"new", "closed"}
          /\ (\A i \in DOMAIN sessions : ~sessions[i].isSender) => ~sConnected

\* A sender session has made its offer upon receiver-joined, and a receiver
\* session has just answered a delivered offer.
C14_Witness ==
    /\ \E i \in DOMAIN sessions : sessions[i].isSender /\ sessions[i].sig = "have-local-offer"
    /\ \E k \in DOMAIN emitted : emitted[k].ev = "answer"
    /\ {"receiver-joined", "offer"} \subseteq delivered


\* C20: a binary frame handled while no file-info has been received (the
\* file name is still unset) is rejected: the accumulator and the byte count
\* stay as they were, empty and 0, and progress is not updated.
C20_BinaryBeforeInfoRejected ==
    [][\A frame \in RemoteFrames :
          (frame.binary /\ fileName = "" /\ HookOnMessage(frame)) =>
              /\ fileChunks' = fileChunks
              /\ receivedSize' = 0
              /\ sProgress' = sProgress]_vars


\* C21: when the receiver-joined handler of a sender session or the offer
\* handler of a receiver session throws while constructing its offer or
\* answer, that session's peer connection is torn down (closed) by the step
\* and the session transmits no offer or answer for a later receiver-joined
\* or offer event.
C21_FailureIsTerminal ==
    [][\A ev \in {"receiver-joined", "offer"}, failing \in SUBSET (1..MaxSessions) :
          \A i \in DOMAIN sessions :
              (i \in failing /\ Responds(sessions[i], ev, FALSE) /\ OnSocketEvent(ev, failing)) =>
                  /\ sessions'[i].conn = "closed"
                  /\ ~Responds(sessions'[i], ev, FALSE)]_vars


\* C23: a text frame that is not JSON, or whose JSON has no recognised type,
\* is dropped: handling it leaves the accumulator, the byte count, totalSize,
\* the file name, progress and status as they were and surfaces no file.
C23_StrayFrameDropped ==
    [][\A frame \in StrayFrames :
          HookOnMessage(frame) =>
              UNCHANGED <<fileChunks, receivedSize, totalSize, fileName, sProgress, sStatus, downloads>>]_vars

\* Two frames were handled, one a chunk that is still in the accumulator and
\* the other neither a chunk, a file-info nor a file-complete.
C23_Witness ==
    /\ rcvd = 2
    /\ Len(fileChunks) = 1
    /\ receivedSize = CHUNK_SIZE
    /\ fileName = ""
    /\ downloads = << >>


\* the emissions of kind ev among those of the last step
EmittedOf(ev) == {k \in DOMAIN emitted : emitted[k].ev = ev}

\* C25: whatever generateCode, connectWithCode and resetConnection calls came
\* before, one socket event makes the peer transmit at most one offer and at
\* most one answer, and the one it transmits is made by the peer connection
\* of the most recent session.
C25_OneReplyPerEvent ==
    /\ Cardinality(EmittedOf("offer")) <= 1
    /\ Cardinality(EmittedOf("answer")) <= 1
    /\ \A k \in EmittedOf("offer") \cup EmittedOf("answer") :
          emitted[k].from = peerConnectionRef

=============================================================================
